---- MODULE Spec2Model ----
(***************************************************************************)
(* Model of the RESPINOW-Hub forecast validation: the checks of            *)
(* validation_functions.py, the orchestrator check_forecast, and the       *)
(* batch run of main.py.                                                   *)
(*                                                                         *)
(* Text (paths, file names, raw csv cells) is a sequence of one-character  *)
(* strings.  A nullable typed cell is <<>> (NaN / NaT) or <<v>>.  A        *)
(* quantile level is held in thousandths (0.025 is 25).  A date is the     *)
(* number of days since 1970-01-01.                                        *)
(***************************************************************************)
EXTENDS Integers, Sequences, FiniteSets, TLC

VARIABLES
    filepath,    \* check_forecast: the path argument
    content,     \* the csv file stored at filepath
    today,       \* pd.Timestamp('today', tz='Europe/Berlin').date()
    pc,          \* position in check_forecast
    ci,          \* index of the next check of the loop of check_forecast
    df,          \* the table read on line 148, mutated by the checks
    errors,      \* the list check_forecast builds
    files_changed, \* main.py: the files of the pull request
    mpc,         \* main.py: position in the script
    forecasts,   \* main.py: files matching pat
    other_files, \* main.py: the other files
    disk,        \* main.py: files downloaded below forecasts/
    unchecked,   \* main.py: files glob has still to yield
    all_errors,  \* main.py: the dict of error lists
    labels,      \* main.py: labels added to the pull request
    comment,     \* main.py: the parts of the consolidated comment
    exit_code    \* main.py: the exit status of the script

vfvars == <<filepath, content, today, pc, ci, df, errors>>
mainvars == <<files_changed, mpc, forecasts, other_files, disk, unchecked,
              all_errors, labels, comment, exit_code>>
vars == <<vfvars, mainvars>>

-----------------------------------------------------------------------------
(* Text helpers *)

Digits == <<"0", "1", "2", "3", "4", "5", "6", "7", "8", "9">>
IsDigit(c) == \E i \in 1..Len(Digits) : Digits[i] = c
DigitVal(c) == (CHOOSE i \in 1..Len(Digits) : Digits[i] = c) - 1

S_forecasts == <<"f", "o", "r", "e", "c", "a", "s", "t", "s">>
S_submissions == <<"s", "u", "b", "m", "i", "s", "s", "i", "o", "n", "s">>
S_retrospective ==
    <<"r", "e", "t", "r", "o", "s", "p", "e", "c", "t", "i", "v", "e">>
S_csv == <<"c", "s", "v">>

\* s holds lit at position i
HasAt(s, lit, i) ==
    /\ i >= 1
    /\ i + Len(lit) - 1 <= Len(s)
    /\ \A k \in 1..Len(lit) : s[i + k - 1] = lit[k]

\* Python: lit in s
Contains(s, lit) == \E i \in 1..(Len(s) + 1) : HasAt(s, lit, i)

\* regex `.`: one character that is not a newline
AnyCharAt(s, i) == i >= 1 /\ i <= Len(s) /\ s[i] # "\n"

\* regex \d\d\d\d-\d\d-\d\d- at position i
DateDashAt(s, i) ==
    /\ i >= 1
    /\ i + 10 <= Len(s)
    /\ \A k \in {0, 1, 2, 3, 5, 6, 8, 9} : IsDigit(s[i + k])
    /\ \A k \in {4, 7, 10} : s[i + k] = "-"

SlashPos(s) == {i \in 1..Len(s) : s[i] = "/"}

\* SUBMISSION_PATTERN.match(s) is not None: the pattern is anchored at the
\* start only, (.+) is any non-empty run of characters, \1 \2 \3 repeat the
\* groups, and the `.` before csv is any character.
SUBMISSION_PATTERN_match(s) ==
    LET lit == S_forecasts \o <<"/">> \o S_submissions
    IN  /\ HasAt(s, lit, 1)
        /\ \E p1, p2, p3, p4 \in SlashPos(s) :
              /\ p1 > Len(lit)
              /\ p2 > p1 + 1
              /\ p3 > p2 + 1
              /\ p4 > p3 + 1
              /\ LET A == SubSeq(s, p1 + 1, p2 - 1)
                     B == SubSeq(s, p2 + 1, p3 - 1)
                     C == SubSeq(s, p3 + 1, p4 - 1)
                     tail == A \o <<"-">> \o B \o <<"-">> \o C
                     q == p4 + 12
                 IN  /\ DateDashAt(s, p4 + 1)
                     /\ HasAt(s, tail, q)
                     /\ AnyCharAt(s, q + Len(tail))
                     /\ HasAt(s, S_csv, q + Len(tail) + 1)

\* os.path.basename
basename(s) ==
    IF SlashPos(s) = {} THEN s
    ELSE LET last == CHOOSE i \in SlashPos(s) : \A j \in SlashPos(s) : j <= i
         IN  SubSeq(s, last + 1, Len(s))

\* Python slice s[:n]
Take(s, n) == SubSeq(s, 1, IF Len(s) < n THEN Len(s) ELSE n)

-----------------------------------------------------------------------------
(* Dates *)

IsLeap(y) == (y % 4 = 0 /\ y % 100 # 0) \/ y % 400 = 0
DaysInMonth(y, m) ==
    IF m = 2 THEN (IF IsLeap(y) THEN 29 ELSE 28)
    ELSE IF m \in {4, 6, 9, 11} THEN 30 ELSE 31

Num(s, i, n) ==
    LET RECURSIVE acc(_, _)
        acc(k, v) == IF k = n THEN v ELSE acc(k + 1, 10 * v + DigitVal(s[i + k]))
    IN  acc(0, 0)

\* pd.to_datetime(text) succeeds.  Only the yyyy-mm-dd form is modelled as
\* a date; the inputs of the model are either of that form or hold no digit.
ParseOk(s) ==
    /\ Len(s) = 10
    /\ \A k \in {1, 2, 3, 4, 6, 7, 9, 10} : IsDigit(s[k])
    /\ s[5] = "-" /\ s[8] = "-"
    /\ Num(s, 6, 2) \in 1..12
    /\ Num(s, 9, 2) \in 1..DaysInMonth(Num(s, 1, 4), Num(s, 6, 2))

\* days since 1970-01-01 of a civil date
DaysFromCivil(y0, m, d) ==
    LET y == IF m <= 2 THEN y0 - 1 ELSE y0
        era == y \div 400
        yoe == y - era * 400
        mp == IF m > 2 THEN m - 3 ELSE m + 9
        doy == (153 * mp + 2) \div 5 + d - 1
        doe == yoe * 365 + yoe \div 4 - yoe \div 100 + doy
    IN  era * 146097 + doe - 719468

\* pd.to_datetime(text).date()
ParseDate(s) == DaysFromCivil(Num(s, 1, 4), Num(s, 6, 2), Num(s, 9, 2))

Abs(n) == IF n < 0 THEN 0 - n ELSE n

-----------------------------------------------------------------------------
(* Results of a check: it raises, or returns errors (None is no error); a   *)
(* single message and a list of messages are both held as a sequence, as    *)
(* check_forecast normalises them.  An error is <<check, kind, detail>>.    *)

Err(check, kind, detail) == <<check, kind, detail>>
Raise == [raised |-> TRUE, out |-> <<>>]
Ret(errs) == [raised |-> FALSE, out |-> errs]
None == Ret(<<>>)

\* the indices 1..n satisfying keep, in increasing order
SelectIdx(n, keep(_)) == SelectSeq([i \in 1..n |-> i], keep)

\* Series.unique(): the distinct values of s in order of first appearance
Unique(s) ==
    LET idx == SelectIdx(Len(s), LAMBDA i : \A j \in 1..(i - 1) : s[j] # s[i])
    IN  [k \in 1..Len(idx) |-> s[idx[k]]]

Column(rows, c) == [i \in 1..Len(rows) |-> rows[i][c]]
HasCol(t, c) == \E k \in 1..Len(t.columns) : t.columns[k] = c

-----------------------------------------------------------------------------
(* check_filepath, check_forecast_date *)

check_filepath(path) ==
    IF ~SUBMISSION_PATTERN_match(path)
    THEN Ret(<<Err("check_filepath", "naming convention", path)>>)
    ELSE None

\* The file is read without parse_dates: forecast_date cells are raw text,
\* <<>> for an empty cell (NaN).
check_forecast_date(path, file, now) ==
    LET name10 == Take(basename(path), 10)
        E(kind, detail) == Ret(<<Err("check_forecast_date", kind, detail)>>)
    IN  IF ~ParseOk(name10) THEN E("filename date format", <<name10>>)
        ELSE IF ~file.parseable THEN Raise
        ELSE IF ~HasCol(file, "forecast_date") THEN Raise
        ELSE
          LET col == Column(file.rows, "forecast_date")
              nunique == Cardinality({col[i] : i \in 1..Len(col)} \ {<<>>})
              file_forecast_date == ParseDate(name10)
          IN  IF nunique > 1 THEN E("multiple forecast dates", Unique(col))
              \* iloc[0] of an empty column raises inside the try and again
              \* inside the except clause that formats the message
              ELSE IF Len(col) = 0 THEN Raise
              ELSE IF col[1] # <<>> /\ ~ParseOk(col[1])
                   THEN E("column date format", <<col[1]>>)
              \* pd.to_datetime(nan).date() is NaT, unequal to every date
              ELSE IF col[1] = <<>> THEN E("date mismatch", <<name10, col[1]>>)
              ELSE IF file_forecast_date # ParseDate(col[1])
                   THEN E("date mismatch", <<name10, col[1]>>)
              ELSE IF /\ ~Contains(path, S_retrospective)
                      /\ Abs(file_forecast_date - now) > 1
                   THEN E("not made today", <<name10>>)
              ELSE None

-----------------------------------------------------------------------------
(* Constants of validation_functions.py *)

VALID_COLUMNS ==
    <<"location", "age_group", "forecast_date", "target_end_date", "horizon",
      "type", "quantile", "value">>
LOCATION_CODES ==
    {"DE", "DE-BB-BE", "DE-BW", "DE-BY", "DE-HE", "DE-MV", "DE-NI-HB",
     "DE-NW", "DE-RP-SL", "DE-SH-HH", "DE-SN", "DE-ST", "DE-TH"}
VALID_QUANTILES == <<25, 100, 250, 500, 750, 900, 975>>
VALID_TYPES == {"mean", "quantile"}
VALID_AGE_GROUPS ==
    {"00+", "00-04", "05-14", "15-34", "35-59", "60-79", "80+", "60+"}
VALID_HORIZONS == {-3, -2, -1, 0, 1, 2, 3, 4}

Range(s) == {s[i] : i \in 1..Len(s)}

-----------------------------------------------------------------------------
(* Tables.  A file is [parseable, columns, rows]; a row is a record with a  *)
(* field per column the model knows, of which only those named in columns   *)
(* exist.  String cells are "" when empty (NaN); quantile and parsed date   *)
(* cells are <<>> when empty; horizon cells are integers.                   *)

DATE_COLUMNS == {"forecast_date", "target_end_date"}
STRING_COLUMNS == {"location", "age_group", "type", "extra"}

\* a date column is converted when every cell is empty or a date, and is
\* left as text otherwise
DateColumnParses(file, c) ==
    \A i \in 1..Len(file.rows) :
        file.rows[i][c] = <<>> \/ ParseOk(file.rows[i][c])

ParseCell(cell) == IF cell = <<>> THEN <<>> ELSE <<ParseDate(cell)>>

\* pd.read_csv(filepath, parse_dates = ['forecast_date', 'target_end_date'])
\* raises on a file that is no table and on a missing parse_dates column
read_csv_raises(file) ==
    \/ ~file.parseable
    \/ \E c \in DATE_COLUMNS : ~HasCol(file, c)

read_csv(file) ==
    LET parsed == {c \in DATE_COLUMNS : DateColumnParses(file, c)}
        conv(r) == [c \in DOMAIN r |->
                      IF c \in parsed THEN ParseCell(r[c]) ELSE r[c]]
    IN  [columns |-> file.columns,
         parsed  |-> parsed,
         rows    |-> [i \in 1..Len(file.rows) |-> conv(file.rows[i])]]

IsNull(c, v) == IF c \in STRING_COLUMNS THEN v = "" ELSE
                IF c = "horizon" THEN FALSE ELSE v = <<>>

-----------------------------------------------------------------------------
(* Ordering of cells, for sort_values and the sorted keys of groupby *)

StrOrder ==
    <<"00+", "00-04", "05-14", "15-34", "35-59", "60+", "60-79", "80+",
      "99+", "DE", "DE-BB-BE", "DE-BW", "DE-BY", "DE-HE", "DE-MV",
      "DE-NI-HB", "DE-NW", "DE-RP-SL", "DE-SH-HH", "DE-SN", "DE-ST",
      "DE-TH", "XX", "mean", "median", "quantile", "x">>
StrRank(v) == CHOOSE i \in 1..Len(StrOrder) : StrOrder[i] = v

CharOrder ==
    <<"-", ".", "/", "0", "1", "2", "3", "4", "5", "6", "7", "8", "9", "_",
      "a", "b", "c", "d", "e", "f", "g", "h", "i", "j", "k", "l", "m", "n",
      "o", "p", "q", "r", "s", "t", "u", "v", "w", "x", "y", "z">>
CharRank(ch) == CHOOSE i \in 1..Len(CharOrder) : CharOrder[i] = ch

RECURSIVE TextLess(_, _)
TextLess(a, b) ==
    IF a = <<>> THEN b # <<>>
    ELSE IF b = <<>> THEN FALSE
    ELSE IF a[1] = b[1] THEN TextLess(Tail(a), Tail(b))
    ELSE CharRank(a[1]) < CharRank(b[1])

\* nulls sort last
CellLess(t, c, a, b) ==
    IF IsNull(c, a) THEN FALSE
    ELSE IF IsNull(c, b) THEN TRUE
    ELSE IF c \in STRING_COLUMNS THEN StrRank(a) < StrRank(b)
    ELSE IF c = "horizon" THEN a < b
    ELSE IF c \in DATE_COLUMNS /\ c \notin t.parsed THEN TextLess(a, b)
    ELSE a[1] < b[1]

RECURSIVE RowLess(_, _, _, _)
RowLess(t, cols, r1, r2) ==
    IF cols = <<>> THEN FALSE
    ELSE LET c == Head(cols)
         IN  IF r1[c] = r2[c] THEN RowLess(t, Tail(cols), r1, r2)
             ELSE CellLess(t, c, r1[c], r2[c])

\* stable sort of <<index, row>> pairs by the columns cols
RECURSIVE SortBy(_, _, _)
SortBy(t, cols, s) ==
    IF Len(s) <= 1 THEN s
    ELSE LET rest == SortBy(t, cols, SubSeq(s, 1, Len(s) - 1))
             x == s[Len(s)]
             k == Cardinality({i \in 1..Len(rest) :
                                 ~RowLess(t, cols, x[2], rest[i][2])})
         IN  SubSeq(rest, 1, k) \o <<x>> \o SubSeq(rest, k + 1, Len(rest))

-----------------------------------------------------------------------------
(* The seven table checks.  Reading a column the table lacks raises         *)
(* (AttributeError for df.name, KeyError for df['name'] and for a subset or *)
(* groupby key).                                                            *)

Lacks(t, cols) == \E c \in cols : ~HasCol(t, c)

check_header(t) ==
    LET missing_cols == SelectSeq(VALID_COLUMNS, LAMBDA c : ~HasCol(t, c))
        additional_cols ==
            SelectSeq(t.columns, LAMBDA c : c \notin Range(VALID_COLUMNS))
    IN  Ret((IF Len(missing_cols) > 0
             THEN <<Err("check_header", "missing columns", missing_cols)>>
             ELSE <<>>)
            \o
            (IF Len(additional_cols) > 0
             THEN <<Err("check_header", "not accepted columns", additional_cols)>>
             ELSE <<>>))

check_column_values(t) ==
    IF Lacks(t, {"location", "quantile", "type", "age_group", "horizon"})
    THEN Raise
    ELSE
      LET invalid(c, allowed) ==
              SelectSeq(Unique(Column(t.rows, c)), LAMBDA v : v \notin allowed)
          \* df['quantile'].dropna().unique()
          invalid_quantile ==
              LET present == SelectSeq(Column(t.rows, "quantile"),
                                       LAMBDA v : v # <<>>)
              IN  SelectSeq(Unique(present),
                            LAMBDA v : v[1] \notin Range(VALID_QUANTILES))
          E(key, value) ==
              IF Len(value) > 0
              THEN <<Err("check_column_values", key, value)>>
              ELSE <<>>
      IN  Ret(E("location", invalid("location", LOCATION_CODES))
              \o E("quantile", invalid_quantile)
              \o E("type", invalid("type", VALID_TYPES))
              \o E("age_group", invalid("age_group", VALID_AGE_GROUPS))
              \o E("horizon", invalid("horizon", VALID_HORIZONS)))

\* str.replace('.', '') then str.isnumeric(): digits only, at least one
IsNumericText(v) ==
    LET stripped == SelectSeq(v, LAMBDA ch : ch # ".")
    IN  Len(stripped) > 0 /\ \A k \in 1..Len(stripped) : IsDigit(stripped[k])

check_value(t) ==
    IF Lacks(t, {"value"}) THEN Raise
    ELSE
      LET col == Column(t.rows, "value")
          n_missing == Cardinality({i \in 1..Len(col) : col[i] = <<>>})
          \* the empty cells fail isnumeric too and are dropped by dropna()
          non_numeric_values ==
              SelectSeq(col, LAMBDA v : v # <<>> /\ ~IsNumericText(v))
      IN  Ret((IF n_missing # 0
               THEN <<Err("check_value", "missing values", <<n_missing>>)>>
               ELSE <<>>)
              \o
              (IF Len(non_numeric_values) > 0
               THEN <<Err("check_value", "non-numeric", non_numeric_values)>>
               ELSE <<>>))

check_mean(t) ==
    IF Lacks(t, {"type", "quantile"}) THEN Raise
    ELSE
      LET n == Cardinality({i \in 1..Len(t.rows) :
                              /\ t.rows[i].type = "mean"
                              /\ t.rows[i].quantile # <<>>})
      IN  IF n > 0 THEN Ret(<<Err("check_mean", "quantile not NA", <<n>>)>>)
          ELSE None

DUPLICATE_KEY ==
    <<"location", "age_group", "forecast_date", "target_end_date", "horizon",
      "type", "quantile">>

KeyOf(r, cols) == [k \in 1..Len(cols) |-> r[cols[k]]]

\* variant of Duplicated: keep = 'first', the first row of a key is not marked
Duplicated_KeepFirst(t) ==
    [i \in 1..Len(t.rows) |->
        \E j \in 1..(i - 1) :
            KeyOf(t.rows[j], DUPLICATE_KEY) = KeyOf(t.rows[i], DUPLICATE_KEY)]

\* df.duplicated(subset, keep = False): every row whose key another row
\* has too; missing values compare equal
Duplicated(t) ==
    [i \in 1..Len(t.rows) |->
        \E j \in 1..Len(t.rows) :
            j # i /\ KeyOf(t.rows[j], DUPLICATE_KEY) = KeyOf(t.rows[i], DUPLICATE_KEY)]

check_duplicates(t) ==
    IF Lacks(t, Range(DUPLICATE_KEY)) THEN Raise
    ELSE
      LET dup == Duplicated(t)
          idx == SelectIdx(Len(t.rows), LAMBDA i : dup[i])
          df_duplicated == [k \in 1..Len(idx) |-> <<idx[k], t.rows[idx[k]]>>]
          sorted == SortBy(t, DUPLICATE_KEY, df_duplicated)
          n == Len(sorted)
      IN  IF n > 0
          THEN Ret(<<Err("check_duplicates", "duplicated targets",
                         [n |-> n, rows |-> sorted])>>)
          ELSE None

\* variant of InvalidTargetDate: a difference of one day is let through
InvalidTargetDate_Lenient(t, r) ==
    IF "target_end_date" \notin t.parsed THEN TRUE
    ELSE IF r.forecast_date = <<>> \/ r.target_end_date = <<>> THEN TRUE
    ELSE Abs(r.target_end_date[1] - (r.forecast_date[1] + 7 * r.horizon - 4)) > 1

\* x.target_end_date != x.forecast_date + pd.Timedelta(weeks = x.horizon,
\* days = -4); NaT + Timedelta is NaT, and != with NaT is True
InvalidTargetDate(t, r) ==
    IF "target_end_date" \notin t.parsed THEN TRUE
    ELSE IF r.forecast_date = <<>> \/ r.target_end_date = <<>> THEN TRUE
    ELSE r.target_end_date[1] # r.forecast_date[1] + 7 * r.horizon - 4

\* df.apply(..., axis = 1) of a table without rows returns a DataFrame,
\* which cannot be set as one column; text plus Timedelta raises
check_target_dates_raises(t) ==
    \/ Lacks(t, {"forecast_date", "target_end_date", "horizon"})
    \/ Len(t.rows) = 0
    \/ "forecast_date" \notin t.parsed

\* the table after line 81
check_target_dates_df(t) ==
    IF check_target_dates_raises(t) THEN t
    ELSE [t EXCEPT
            !.columns = IF HasCol(t, "invalid_target_date") THEN @
                        ELSE Append(@, "invalid_target_date"),
            !.rows = [i \in 1..Len(t.rows) |->
                        [t.rows[i] EXCEPT !.invalid_target_date =
                            InvalidTargetDate(t, t.rows[i])]]]

check_target_dates(t) ==
    IF check_target_dates_raises(t) THEN Raise
    ELSE
      LET u == check_target_dates_df(t)
          idx == SelectIdx(Len(u.rows), LAMBDA i : u.rows[i].invalid_target_date)
          triples == [k \in 1..Len(idx) |->
                        KeyOf(u.rows[idx[k]],
                              <<"forecast_date", "target_end_date", "horizon">>)]
          invalid_target_dates == Unique(triples)
      IN  IF Len(invalid_target_dates) > 0
          THEN Ret(<<Err("check_target_dates", "wrong target_end_dates",
                         invalid_target_dates)>>)
          ELSE None

GROUP_KEY == <<"location", "age_group", "horizon", "target_end_date">>

check_quantiles_raises(t) ==
    Lacks(t, {"type", "quantile"} \cup Range(GROUP_KEY))

\* groupby drops the rows with a missing key
Grouped(t, i) ==
    /\ t.rows[i].type # "mean"
    /\ \A c \in Range(GROUP_KEY) : ~IsNull(c, t.rows[i][c])

\* variant of NUnique: transform('count'), the rows with a quantile
NUnique_Count(t, i) ==
    Cardinality({j \in 1..Len(t.rows) :
                   /\ Grouped(t, j)
                   /\ KeyOf(t.rows[j], GROUP_KEY) = KeyOf(t.rows[i], GROUP_KEY)
                   /\ t.rows[j].quantile # <<>>})

\* transform('nunique'): the number of distinct non-missing quantiles of
\* the group of row i
NUnique(t, i) ==
    Cardinality({t.rows[j].quantile : j \in
                   {j \in 1..Len(t.rows) :
                      /\ Grouped(t, j)
                      /\ KeyOf(t.rows[j], GROUP_KEY) = KeyOf(t.rows[i], GROUP_KEY)}}
                \ {<<>>})

\* the table after line 122
check_quantiles_df(t) ==
    IF check_quantiles_raises(t) THEN t
    ELSE [t EXCEPT
            !.columns = IF HasCol(t, "no_quantiles") THEN @
                        ELSE Append(@, "no_quantiles"),
            !.rows = [i \in 1..Len(t.rows) |->
                        [t.rows[i] EXCEPT !.no_quantiles =
                            IF Grouped(t, i) THEN <<NUnique(t, i)>>
                            ELSE IF t.rows[i].type # "mean" THEN <<>>
                            ELSE @]]]

check_quantiles(t) ==
    IF check_quantiles_raises(t) THEN Raise
    ELSE
      LET u == check_quantiles_df(t)
          n == Len(u.rows)
          inc == SelectIdx(n, LAMBDA i : /\ u.rows[i].no_quantiles # <<>>
                                         /\ u.rows[i].no_quantiles # <<7>>)
          incomplete_quantiles == [k \in 1..Len(inc) |-> <<inc[k], u.rows[inc[k]]>>]
          only_mean == \A i \in 1..n : u.rows[i].type = "mean"
          only_median == \A i \in 1..n :
              u.rows[i].type = "quantile" => u.rows[i].quantile = <<500>>
          \* incomplete_quantiles.groupby(...)['quantile'].unique(): per
          \* group, in the order of the keys, the distinct quantiles
          sorted == SortBy(u, GROUP_KEY, incomplete_quantiles)
          keys == Unique([k \in 1..Len(sorted) |-> KeyOf(sorted[k][2], GROUP_KEY)])
          members(g) == SelectSeq(incomplete_quantiles, LAMBDA p :
                                      KeyOf(p[2], GROUP_KEY) = keys[g])
          settings ==
              [g \in 1..Len(keys) |->
                 <<keys[g],
                   Unique([k \in 1..Len(members(g)) |-> members(g)[k][2].quantile])>>]
      IN  IF Len(incomplete_quantiles) > 0 /\ ~(only_mean \/ only_median)
          THEN Ret(<<Err("check_quantiles", "incomplete quantiles", settings)>>)
          ELSE None

-----------------------------------------------------------------------------
(* check_forecast *)

\* variant of Checks: check_target_dates ahead of check_duplicates
Checks_Reordered ==
    <<"check_header", "check_column_values", "check_value", "check_mean",
      "check_target_dates", "check_duplicates", "check_quantiles">>

Checks ==
    <<"check_header", "check_column_values", "check_value", "check_mean",
      "check_duplicates", "check_target_dates", "check_quantiles">>

\* check(df)
Call(name, t) ==
    CASE name = "check_header" -> check_header(t)
      [] name = "check_column_values" -> check_column_values(t)
      [] name = "check_value" -> check_value(t)
      [] name = "check_mean" -> check_mean(t)
      [] name = "check_duplicates" -> check_duplicates(t)
      [] name = "check_target_dates" -> check_target_dates(t)
      [] name = "check_quantiles" -> check_quantiles(t)

\* df after check(df): two of the checks add a column to the table
After(name, t) ==
    CASE name = "check_target_dates" -> check_target_dates_df(t)
      [] name = "check_quantiles" -> check_quantiles_df(t)
      [] OTHER -> t

Fatal(name) == Err("check_forecast", "Fatal error", name)

\* variant of Extend: an exception of the check is swallowed silently
Extend_Silent(name, t) ==
    LET result == Call(name, t)
    IN  IF result.raised THEN <<>> ELSE result.out

\* one pass of the loop body: what is appended to errors
Extend(name, t) ==
    LET result == Call(name, t)
    IN  IF result.raised THEN <<Fatal(name)>> ELSE result.out

RECURSIVE RunChecks(_, _, _)
RunChecks(k, t, errs) ==
    IF k > Len(Checks) THEN errs
    ELSE RunChecks(k + 1, After(Checks[k], t), errs \o Extend(Checks[k], t))

\* check_forecast as a function: it raises when check_forecast_date or the
\* read of line 148 raises, and returns the list otherwise
check_forecast(path, file, now) ==
    LET r1 == check_filepath(path)
        r2 == check_forecast_date(path, file, now)
    IN  IF r2.raised \/ read_csv_raises(file) THEN Raise
        ELSE Ret(RunChecks(1, read_csv(file), r1.out \o r2.out))

EmptyDf == [columns |-> <<>>, parsed |-> {}, rows |-> <<>>]

CheckFilepath ==
    /\ pc = "check_filepath"
    /\ errors' = errors \o check_filepath(filepath).out
    /\ pc' = "check_forecast_date"
    /\ UNCHANGED <<filepath, content, today, ci, df, mainvars>>

CheckForecastDate ==
    /\ pc = "check_forecast_date"
    /\ LET result == check_forecast_date(filepath, content, today)
       IN  /\ errors' = errors \o result.out
           /\ pc' = IF result.raised THEN "raised" ELSE "read_csv"
    /\ UNCHANGED <<filepath, content, today, ci, df, mainvars>>

ReadCsv ==
    /\ pc = "read_csv"
    /\ IF read_csv_raises(content)
       THEN pc' = "raised" /\ df' = df
       ELSE pc' = "checks" /\ df' = read_csv(content)
    /\ ci' = 1
    /\ UNCHANGED <<filepath, content, today, errors, mainvars>>

RunCheck ==
    /\ pc = "checks"
    /\ ci \in 1..Len(Checks)
    /\ errors' = errors \o Extend(Checks[ci], df)
    /\ df' = After(Checks[ci], df)
    /\ ci' = ci + 1
    /\ pc' = IF ci = Len(Checks) THEN "done" ELSE "checks"
    /\ UNCHANGED <<filepath, content, today, mainvars>>

-----------------------------------------------------------------------------
(* Inputs: paths, dates and tables the specifications draw from *)

MaxRows == 2
MaxDateRows == 2
MaxExtra == 1
MaxRemoved == 1
MaxFiles == 2

T(ch) == <<ch>>
Nov(d1, d2) == <<"2", "0", "2", "3", "-", "1", "1", "-", d1, d2>>
Nov04 == Nov("0", "4")
Nov05 == Nov("0", "5")
Nov06 == Nov("0", "6")
Nov09 == Nov("0", "9")
Nov10 == Nov("1", "0")
Nov11 == Nov("1", "1")
Nov12 == Nov("1", "2")
Oct29 == <<"2", "0", "2", "3", "-", "1", "0", "-", "2", "9">>
Dec03 == <<"2", "0", "2", "3", "-", "1", "2", "-", "0", "3">>
NoDate == <<"y", "y", "y", "y", "-", "m", "m", "-", "d", "d">>
BadText == <<"x">>

P_sub == S_forecasts \o T("/") \o S_submissions
P_retro == P_sub \o T("/") \o S_retrospective
P_bare == S_submissions
X_csv == T(".") \o S_csv
X_ucsv == T("_") \o S_csv
X_bak == X_csv \o <<".", "b", "a", "k">>
X_txt == <<".", "t", "x", "t">>

JoinPath(prefix, A, B, C, date, nA, nB, nC, suffix) ==
    prefix \o T("/") \o A \o T("/") \o B \o T("/") \o C \o T("/")
    \o date \o T("-") \o nA \o T("-") \o nB \o T("-") \o nC \o suffix

PathOf(prefix, date) ==
    JoinPath(prefix, T("a"), T("b"), T("c"), date, T("a"), T("b"), T("c"), X_csv)
GoodPath == PathOf(P_sub, Nov09)
GoodRetroPath == PathOf(P_retro, Nov09)

BaseRow ==
    [location |-> "DE", age_group |-> "00+", forecast_date |-> Nov09,
     target_end_date |-> Nov05, horizon |-> 0, type |-> "quantile",
     quantile |-> <<500>>, value |-> <<"1">>, extra |-> "x",
     invalid_target_date |-> FALSE, no_quantiles |-> <<>>]

QRow(q) == [BaseRow EXCEPT !.quantile = <<q>>]
MeanRow == [BaseRow EXCEPT !.type = "mean", !.quantile = <<>>]

File(cols, rows) == [parseable |-> TRUE, columns |-> cols, rows |-> rows]
NoTable == [parseable |-> FALSE, columns |-> <<>>, rows |-> <<>>]
Input(path, file, now) == [path |-> path, file |-> file, today |-> now]

SeqsUpTo(S, n) == UNION {[1..k -> S] : k \in 0..n}

\* paths: directory, repeated segments, date and extension varied
PathInputs ==
    {Input(JoinPath(prefix, A, T("b"), T("c"), date, nA, T("b"), nC, suffix),
           File(VALID_COLUMNS, <<BaseRow>>), ParseDate(Nov09)) :
        prefix \in {P_sub, P_retro, P_bare},
        A \in {T("a"), <<"a", "/", "d">>}, nA \in {T("a"), T("d")},
        nC \in {T("c"), <<"c", "c">>},
        date \in {Nov09, NoDate},
        suffix \in {X_csv, X_ucsv, X_bak, X_txt}}

\* forecast dates: file name, column and today varied
DateRow(d) == [BaseRow EXCEPT !.forecast_date = d]
DateInputs ==
    {Input(path, File(VALID_COLUMNS, rows), ParseDate(now)) :
        path \in {GoodPath, GoodRetroPath, PathOf(P_sub, NoDate),
                  PathOf(P_retro, Nov10)},
        rows \in SeqsUpTo({DateRow(d) : d \in {Nov09, Nov10, <<>>, BadText}},
                          MaxDateRows),
        now \in {Nov09, Nov10, Nov11}}

\* headers: any set of required columns missing, with or without an
\* unexpected column; and a file that is no table
ColumnInputs ==
    {Input(path,
           File(SelectSeq(VALID_COLUMNS, LAMBDA c : c \notin M) \o extra,
                <<BaseRow, [QRow(100) EXCEPT !.target_end_date = Nov06]>>),
           ParseDate(Nov09)) :
        path \in {GoodRetroPath, PathOf(P_retro, NoDate)},
        M \in SUBSET Range(VALID_COLUMNS), extra \in {<<>>, <<"extra">>}}
    \cup {Input(path, NoTable, ParseDate(Nov09)) :
            path \in {GoodRetroPath, PathOf(P_retro, NoDate)}}

\* rows: every field that a check reads varied
RowDomain ==
    {BaseRow, QRow(100), MeanRow,
     [MeanRow EXCEPT !.quantile = <<500>>],
     [BaseRow EXCEPT !.quantile = <<>>],
     [BaseRow EXCEPT !.quantile = <<300>>],
     [BaseRow EXCEPT !.target_end_date = Nov06],
     [BaseRow EXCEPT !.target_end_date = Nov04],
     [BaseRow EXCEPT !.target_end_date = <<>>],
     [BaseRow EXCEPT !.horizon = 1, !.target_end_date = Nov12],
     [BaseRow EXCEPT !.horizon = -1, !.target_end_date = Oct29],
     [BaseRow EXCEPT !.horizon = 4, !.target_end_date = Dec03],
     [BaseRow EXCEPT !.horizon = 5, !.target_end_date = Nov05],
     [BaseRow EXCEPT !.location = "XX"],
     [BaseRow EXCEPT !.location = "", !.quantile = <<100>>],
     [BaseRow EXCEPT !.age_group = "99+", !.type = "median"],
     [BaseRow EXCEPT !.value = <<>>],
     [BaseRow EXCEPT !.value = <<"1", ".", "5">>],
     [BaseRow EXCEPT !.value = <<"-", "1">>]}
RowInputs ==
    {Input(GoodRetroPath, File(VALID_COLUMNS, rows), ParseDate(Nov09)) :
        rows \in SeqsUpTo(RowDomain, MaxRows)}

\* quantile groups: one group holding a set of canonical levels, all but at
\* most MaxRemoved of them or at most one, followed by further rows
LevelSets ==
    {S \in SUBSET Range(VALID_QUANTILES) :
        \/ Cardinality(S) >= Len(VALID_QUANTILES) - MaxRemoved
        \/ Cardinality(S) <= 1}
LevelRows(S) ==
    LET qs == SelectSeq(VALID_QUANTILES, LAMBDA q : q \in S)
    IN  [k \in 1..Len(qs) |-> QRow(qs[k])]
ExtraRows ==
    {BaseRow, MeanRow,
     [MeanRow EXCEPT !.quantile = <<500>>],
     [BaseRow EXCEPT !.quantile = <<>>],
     [BaseRow EXCEPT !.quantile = <<300>>],
     [BaseRow EXCEPT !.horizon = 1, !.target_end_date = Nov12],
     [BaseRow EXCEPT !.location = "", !.quantile = <<100>>],
     [BaseRow EXCEPT !.type = "median"]}
QuantileInputs ==
    {Input(GoodRetroPath, File(VALID_COLUMNS, LevelRows(S) \o more),
           ParseDate(Nov09)) :
        S \in LevelSets, more \in SeqsUpTo(ExtraRows, MaxExtra)}

Inputs == PathInputs \cup DateInputs \cup ColumnInputs \cup RowInputs
          \cup QuantileInputs

-----------------------------------------------------------------------------
(* Specification of check_forecast on one file *)

MainIdle ==
    /\ files_changed = {}
    /\ mpc = "idle"
    /\ forecasts = {}
    /\ other_files = {}
    /\ disk = {}
    /\ unchecked = {}
    /\ all_errors = <<>>
    /\ labels = {}
    /\ comment = <<>>
    /\ exit_code = "running"

Init ==
    /\ \E inp \in Inputs :
          /\ filepath = inp.path
          /\ content = inp.file
          /\ today = inp.today
    /\ pc = "check_filepath"
    /\ ci = 1
    /\ df = EmptyDf
    /\ errors = <<>>
    /\ MainIdle

Next == CheckFilepath \/ CheckForecastDate \/ ReadCsv \/ RunCheck

Spec == Init /\ [][Next]_vars

-----------------------------------------------------------------------------
(* main.py: the batch run over the files of a pull request.  A changed file *)
(* is [filename, status, file]: its path in the repository, its status in   *)
(* the pull request and the csv it holds.                                   *)

\* pat.match(s) is not None, for
\* pat = submissions/.*/(.+)/\d\d\d\d-\d\d-\d\d-.*\1.csv
pat_match(s) ==
    LET lit == S_submissions \o <<"/">>
    IN  /\ HasAt(s, lit, 1)
        /\ \E p1, p2 \in SlashPos(s) :
              /\ p1 > Len(lit)
              /\ p2 > p1 + 1
              /\ DateDashAt(s, p2 + 1)
              /\ LET G == SubSeq(s, p1 + 1, p2 - 1)
                 IN  \E k \in (p2 + 12)..Len(s) :
                        /\ HasAt(s, G, k)
                        /\ AnyCharAt(s, k + Len(G))
                        /\ HasAt(s, S_csv, k + Len(G) + 1)

\* f"forecasts/{f.filename}"
LocalPath(f) == S_forecasts \o <<"/">> \o f.filename

\* glob.glob("forecasts/**/*.csv", recursive=True) yields the path
GlobCsv(path) ==
    LET name == basename(path)
    IN  Len(name) >= 4 /\ HasAt(name, <<".">> \o S_csv, Len(name) - 3)

NotValidSubmission == <<"File is not a valid submission.">>

\* d[k] = v of a dict
Put(d, k, v) == [x \in DOMAIN d \cup {k} |-> IF x = k THEN v ELSE d[x]]

RECURSIVE PutAll(_, _)
PutAll(d, fs) ==
    IF fs = {} THEN d
    ELSE LET f == CHOOSE f \in fs : TRUE
         IN  PutAll(Put(d, f.filename, NotValidSubmission), fs \ {f})

\* lines 39-44
Classify ==
    /\ mpc = "start"
    /\ forecasts' = {f \in files_changed : pat_match(f.filename)}
    /\ other_files' = files_changed \ forecasts'
    /\ mpc' = "label"
    /\ UNCHANGED <<files_changed, disk, unchecked, all_errors, labels, comment,
                   exit_code, vfvars>>

\* lines 47-78
LabelPullRequest ==
    /\ mpc = "label"
    /\ LET deleted_forecasts == \E f \in forecasts : f.status = "removed"
           changed_forecasts ==
               \E f \in forecasts : f.status \notin {"removed", "added"}
       IN  /\ labels' = labels
                \cup (IF other_files # {} /\ forecasts # {}
                      THEN {"other-files-updated"} ELSE {})
                \cup (IF forecasts # {} THEN {"data-submission"} ELSE {})
                \cup (IF deleted_forecasts THEN {"forecast-deleted"} ELSE {})
                \cup (IF changed_forecasts THEN {"forecast-updated"} ELSE {})
           /\ comment' = comment
                \o (IF deleted_forecasts THEN <<"deleted">> ELSE <<>>)
                \o (IF changed_forecasts THEN <<"updated">> ELSE <<>>)
    /\ mpc' = "download"
    /\ UNCHANGED <<files_changed, forecasts, other_files, disk, unchecked,
                   all_errors, exit_code, vfvars>>

\* lines 80-89, and the glob of line 95
Download ==
    /\ mpc = "download"
    /\ disk' = {f \in forecasts : f.status # "removed"}
    /\ unchecked' = {f \in disk' : GlobCsv(LocalPath(f))}
    /\ mpc' = "check"
    /\ UNCHANGED <<files_changed, forecasts, other_files, all_errors, labels,
                   comment, exit_code, vfvars>>

\* lines 95-100, one file; an exception of check_forecast ends the script
CheckFile ==
    /\ mpc = "check"
    /\ \E f \in unchecked :
          LET file == LocalPath(f)
              result == check_forecast(file, f.file, today)
          IN  IF result.raised
              THEN /\ mpc' = "crashed"
                   /\ exit_code' = "nonzero"
                   /\ UNCHANGED <<unchecked, all_errors>>
              ELSE /\ unchecked' = unchecked \ {f}
                   /\ all_errors' = IF Len(result.out) > 0
                                    THEN Put(all_errors, basename(file), result.out)
                                    ELSE all_errors
                   /\ UNCHANGED <<mpc, exit_code>>
    /\ UNCHANGED <<files_changed, forecasts, other_files, disk, labels, comment,
                   vfvars>>

\* variant of OtherFiles: the other files get no error
OtherFiles_Ignored ==
    /\ mpc = "check"
    /\ unchecked = {}
    /\ mpc' = "report"
    /\ UNCHANGED <<files_changed, forecasts, other_files, disk, unchecked,
                   all_errors, labels, comment, exit_code, vfvars>>

\* lines 103-105
OtherFiles ==
    /\ mpc = "check"
    /\ unchecked = {}
    /\ all_errors' = PutAll(all_errors, other_files)
    /\ mpc' = "report"
    /\ UNCHANGED <<files_changed, forecasts, other_files, disk, unchecked,
                   labels, comment, exit_code, vfvars>>

\* lines 107-127
Report ==
    /\ mpc = "report"
    /\ IF DOMAIN all_errors # {}
       THEN /\ comment' = Append(comment, "validation errors")
            /\ labels' = labels
       ELSE /\ labels' = labels \cup {"automerge"}
            /\ comment' = comment
    /\ mpc' = "exit"
    /\ UNCHANGED <<files_changed, forecasts, other_files, disk, unchecked,
                   all_errors, exit_code, vfvars>>

\* lines 129-130
Exit ==
    /\ mpc = "exit"
    /\ exit_code' = IF DOMAIN all_errors # {} THEN "nonzero" ELSE "zero"
    /\ mpc' = "done"
    /\ UNCHANGED <<files_changed, forecasts, other_files, disk, unchecked,
                   all_errors, labels, comment, vfvars>>

\* the files a pull request may change
ChangedFile(A, date, suffix, status, file) ==
    [filename |-> S_submissions \o T("/") \o S_retrospective \o T("/") \o A
                  \o T("/") \o T("b") \o T("/") \o T("c") \o T("/") \o date
                  \o T("-") \o A \o T("-") \o T("b") \o T("-") \o T("c")
                  \o suffix,
     status |-> status, file |-> file]
ValidFile == File(VALID_COLUMNS, <<BaseRow>>)
InvalidFile == File(VALID_COLUMNS, <<[BaseRow EXCEPT !.location = "XX"]>>)
HeaderOnlyFile == File(VALID_COLUMNS, <<>>)
Catalog ==
    {ChangedFile(T("a"), Nov09, X_csv, "added", ValidFile),
     ChangedFile(T("d"), Nov09, X_csv, "modified", ValidFile),
     ChangedFile(T("e"), Nov09, X_csv, "added", InvalidFile),
     ChangedFile(T("f"), Nov09, X_csv, "removed", InvalidFile),
     ChangedFile(T("g"), Nov09, X_csv, "added", HeaderOnlyFile),
     ChangedFile(T("h"), Nov09, X_csv, "added", NoTable),
     ChangedFile(T("i"), Nov09, X_ucsv, "added", InvalidFile),
     [filename |-> <<"r", "e", "a", "d", "m", "e">>, status |-> "added",
      file |-> NoTable],
     [filename |-> Nov09 \o <<"-", "a", "-", "b", "-", "c">> \o X_csv,
      status |-> "added", file |-> ValidFile]}

InitMain ==
    /\ files_changed \in {B \in SUBSET Catalog : Cardinality(B) <= MaxFiles}
    /\ mpc = "start"
    /\ forecasts = {}
    /\ other_files = {}
    /\ disk = {}
    /\ unchecked = {}
    /\ all_errors = <<>>
    /\ labels = {}
    /\ comment = <<>>
    /\ exit_code = "running"
    /\ today = ParseDate(Nov09)
    /\ filepath = <<>>
    /\ content = NoTable
    /\ pc = "idle"
    /\ ci = 1
    /\ df = EmptyDf
    /\ errors = <<>>

NextMain ==
    Classify \/ LabelPullRequest \/ Download \/ CheckFile \/ OtherFiles
    \/ Report \/ Exit

SpecMain == InitMain /\ [][NextMain]_vars

-----------------------------------------------------------------------------
(* Properties.  The table of the file as line 148 reads it, and helpers.    *)

Table == read_csv(content)
ErrorsOf(check) == SelectSeq(errors, LAMBDA e : e[1] = check)
CountIn(s, x) == Cardinality({i \in 1..Len(s) : s[i] = x})
Occurs(s, x) == \E i \in 1..Len(s) : s[i] = x
NoRepeat(s) == \A i, j \in 1..Len(s) : s[i] = s[j] => i = j

SevenChecks ==
    <<"check_header", "check_column_values", "check_value", "check_mean",
      "check_duplicates", "check_target_dates", "check_quantiles">>
\* what a check reports on the table of the file: its errors, or the one
\* synthetic error when it raises
Reported(name) ==
    LET r == Call(name, Table)
    IN  IF r.raised THEN <<Fatal(name)>> ELSE r.out

\* C1: a table check that raises appends exactly one synthetic error naming
\* it and the loop goes on to the next check; when check_forecast returns,
\* each of the seven checks that raised is named by exactly one synthetic
\* error, and every check that did not raise has all its errors in the list.
C1_CrashIsolated ==
    /\ [][(pc = "checks" /\ Call(Checks[ci], df).raised) =>
             /\ errors' = Append(errors, Fatal(Checks[ci]))
             /\ ci' = ci + 1
             /\ pc' \in {"checks", "done"}]_vars
    /\ [][pc = "checks" => pc' # "raised"]_vars
    /\ [](pc = "done" =>
            \A k \in 1..Len(SevenChecks) :
                LET name == SevenChecks[k]
                    r == Call(name, Table)
                IN  /\ CountIn(errors, Fatal(name)) = (IF r.raised THEN 1 ELSE 0)
                    /\ ~r.raised =>
                          \A j \in 1..Len(r.out) : Occurs(errors, r.out[j]))
C1_Witness ==
    /\ pc = "done"
    /\ Call("check_value", Table).raised
    /\ Occurs(errors, Fatal("check_value"))
    /\ ErrorsOf("check_target_dates") # <<>>
    /\ ErrorsOf("check_quantiles") # <<>>

\* C3: the list check_forecast returns is the concatenation of what the
\* path matcher, the date consistency checker and the seven table checks
\* report, in that order, and it is empty exactly when all nine report
\* nothing.
C3_Concatenation ==
    pc = "done" =>
        LET path == check_filepath(filepath).out
            date == check_forecast_date(filepath, content, today).out
            all == path \o date \o Reported("check_header")
                   \o Reported("check_column_values") \o Reported("check_value")
                   \o Reported("check_mean") \o Reported("check_duplicates")
                   \o Reported("check_target_dates") \o Reported("check_quantiles")
        IN  /\ errors = all
            /\ errors = <<>> <=>
                  /\ path = <<>>
                  /\ date = <<>>
                  /\ \A k \in 1..Len(SevenChecks) : Reported(SevenChecks[k]) = <<>>
C3_Witness ==
    /\ pc = "done"
    /\ ErrorsOf("check_filepath") # <<>>
    /\ ErrorsOf("check_forecast_date") # <<>>
    /\ ErrorsOf("check_header") # <<>>
    /\ ErrorsOf("check_target_dates") # <<>>
    /\ ErrorsOf("check_quantiles") # <<>>

\* C2: for a file that is a table with rows, whatever columns its header
\* lacks or adds, check_forecast does not end in an exception, and the list
\* it returns holds the header error naming exactly the missing columns
\* and, if any, the one naming exactly the unexpected columns.
C2_HeaderAlwaysReported ==
    (content.parseable /\ content.rows # <<>>) =>
        /\ pc # "raised"
        /\ pc = "done" =>
              LET missing == SelectSeq(VALID_COLUMNS, LAMBDA c : ~HasCol(content, c))
                  unexpected == SelectSeq(content.columns,
                                          LAMBDA c : c \notin Range(VALID_COLUMNS))
              IN  /\ missing # <<>> =>
                        Occurs(errors, Err("check_header", "missing columns", missing))
                  /\ unexpected # <<>> =>
                        Occurs(errors, Err("check_header", "not accepted columns",
                                           unexpected))

\* C4: check_forecast_date returns at most one error, the message of the
\* first failing step of: (1) the file name starts with a date, (2) the
\* forecast_date column holds exactly one distinct value, (3) that value is
\* a date, (4) both dates are equal, (5) the path is retrospective or the
\* date is within one day of today; and nothing when all five pass.
C4_LowestFailingStep ==
    (content.parseable /\ HasCol(content, "forecast_date")
     /\ pc # "check_filepath" /\ pc # "check_forecast_date" /\ pc # "idle") =>
        LET name10 == Take(basename(filepath), 10)
            col == Column(content.rows, "forecast_date")
            vals == Range(col) \ {<<>>}
            the == CHOOSE v \in vals : TRUE
            expected ==
                IF ~ParseOk(name10) THEN <<"filename date format">>
                ELSE IF Cardinality(vals) # 1 THEN <<"multiple forecast dates">>
                ELSE IF ~ParseOk(the) THEN <<"column date format">>
                ELSE IF ParseDate(name10) # ParseDate(the) THEN <<"date mismatch">>
                ELSE IF /\ ~Contains(filepath, S_retrospective)
                        /\ Abs(ParseDate(name10) - today) > 1
                     THEN <<"not made today">>
                ELSE <<>>
            got == ErrorsOf("check_forecast_date")
        IN  /\ ~check_forecast_date(filepath, content, today).raised
            /\ [k \in 1..Len(got) |-> got[k][2]] = expected


\* Forecast groups of the table check_forecast holds (df keeps the rows as
\* read; the checks only add columns), for C5 and C10
NonMeanRows == {i \in 1..Len(df.rows) : df.rows[i].type # "mean"}
GroupOf(i) == KeyOf(df.rows[i], GROUP_KEY)
KeyComplete(i) == \A c \in Range(GROUP_KEY) : ~IsNull(c, df.rows[i][c])
\* the quantile levels the non-mean rows of the group of row i present
LevelsOf(i) ==
    {df.rows[j].quantile[1] :
        j \in {j \in NonMeanRows : /\ GroupOf(j) = GroupOf(i)
                                   /\ df.rows[j].quantile # <<>>}}
AllMean == \A i \in 1..Len(df.rows) : df.rows[i].type = "mean"
AllMedian ==
    \A i \in 1..Len(df.rows) :
        df.rows[i].type = "quantile" => df.rows[i].quantile = <<500>>
QuantilesRan == pc = "done" /\ ~check_quantiles_raises(Table)

\* C5 as stated: check_quantiles returns an error exactly when the file is
\* neither all-mean nor all-median and some forecast group of non-mean rows
\* (of rows with no key field missing) does not present the 7 canonical
\* quantile levels.
C5_CanonicalLevels ==
    QuantilesRan =>
        (ErrorsOf("check_quantiles") # <<>> <=>
            /\ ~AllMean
            /\ ~AllMedian
            /\ \E i \in NonMeanRows :
                  KeyComplete(i) /\ LevelsOf(i) # Range(VALID_QUANTILES))

\* C5 as amended: check_quantiles returns an error exactly when the file is
\* neither all-mean nor all-median and some forecast group of non-mean rows
\* (rows with a missing key field belong to no group) holds a number of
\* distinct non-missing quantile values other than 7; the error names
\* exactly those groups.  So a group with exactly the 7 canonical levels is
\* never named, however many rows repeat a level; a group with 6 of them is
\* named unless the file is all-median; and an all-mean file yields no error.
C5_DistinctCount ==
    QuantilesRan =>
        LET incomplete == {i \in NonMeanRows :
                             KeyComplete(i) /\ Cardinality(LevelsOf(i)) # 7}
            errs == ErrorsOf("check_quantiles")
            named == {errs[1][3][g][1] : g \in 1..Len(errs[1][3])}
        IN  /\ Len(errs) <= 1
            /\ errs # <<>> <=> (~AllMean /\ ~AllMedian /\ incomplete # {})
            /\ errs # <<>> =>
                  /\ named = {GroupOf(i) : i \in incomplete}
                  /\ NoRepeat([g \in 1..Len(errs[1][3]) |-> errs[1][3][g][1]])
            /\ \A i \in NonMeanRows :
                  /\ (KeyComplete(i) /\ LevelsOf(i) = Range(VALID_QUANTILES)) =>
                        (errs = <<>> \/ GroupOf(i) \notin named)
                  /\ (/\ ~AllMedian
                      /\ KeyComplete(i)
                      /\ LevelsOf(i) \subseteq Range(VALID_QUANTILES)
                      /\ Cardinality(LevelsOf(i)) = 6) =>
                        (errs # <<>> /\ GroupOf(i) \in named)
            /\ AllMean => errs = <<>>
C5_Witness ==
    /\ QuantilesRan
    /\ ErrorsOf("check_quantiles") = <<>>
    /\ ErrorsOf("check_duplicates") # <<>>
    /\ \E i \in NonMeanRows : LevelsOf(i) = Range(VALID_QUANTILES)

\* C6: for a table whose date columns are dates, check_target_dates returns
\* an error exactly when some row has a target_end_date other than
\* forecast_date + 7 * horizon - 4 days (a missing date never agrees); a
\* row off by one day is flagged; the error lists each mismatched
\* (forecast_date, target_end_date, horizon) once and no other.
C6_TargetDates ==
    (pc = "done" /\ DATE_COLUMNS \subseteq Table.parsed /\ HasCol(content, "horizon")) =>
        LET rows == content.rows
            Expected(r) == ParseDate(r.forecast_date) + 7 * r.horizon - 4
            Missing(r) == r.forecast_date = <<>> \/ r.target_end_date = <<>>
            Mismatch(r) == Missing(r) \/ ParseDate(r.target_end_date) # Expected(r)
            Triple(r) == <<ParseCell(r.forecast_date), ParseCell(r.target_end_date),
                           r.horizon>>
            errs == ErrorsOf("check_target_dates")
        IN  /\ Len(errs) <= 1
            /\ errs # <<>> <=> \E i \in 1..Len(rows) : Mismatch(rows[i])
            /\ errs # <<>> =>
                  /\ NoRepeat(errs[1][3])
                  /\ Range(errs[1][3]) =
                        {Triple(rows[i]) : i \in {i \in 1..Len(rows) : Mismatch(rows[i])}}
            /\ \A i \in 1..Len(rows) :
                  (~Missing(rows[i])
                   /\ Abs(ParseDate(rows[i].target_end_date) - Expected(rows[i])) = 1) =>
                      (errs # <<>> /\ Occurs(errs[1][3], Triple(rows[i])))
C6_Witness ==
    /\ pc = "done"
    /\ ErrorsOf("check_target_dates") # <<>>
    /\ Len(content.rows) = 2
    /\ content.rows[1].target_end_date = Nov06
    /\ content.rows[2].horizon = -1
    /\ content.rows[2].target_end_date = Oct29
    /\ Len(ErrorsOf("check_target_dates")[1][3]) = 1

\* C7: check_duplicates flags exactly the rows whose 7-key tuple occurs more
\* than once (missing quantiles counting as equal), in one error holding
\* their count, and returns nothing when every tuple is unique; the rows
\* flagged are the same for every permutation of the rows (all permutations
\* of the tables of up to MaxPermuted rows, all swaps of two rows of the
\* longer ones).
MaxPermuted == 3
Swaps(n) ==
    {[i \in 1..n |-> IF i = a THEN b ELSE IF i = b THEN a ELSE i] :
        a \in 1..n, b \in 1..n}
FlaggedRows(t) ==
    LET out == check_duplicates(t).out
    IN  IF out = <<>> THEN {}
        ELSE {out[1][3].rows[k][1] : k \in 1..Len(out[1][3].rows)}
C7_Duplicates ==
    (pc = "done" /\ ~Lacks(Table, Range(DUPLICATE_KEY))) =>
        LET t == Table
            rows == t.rows
            n == Len(rows)
            flagged == FlaggedRows(t)
            SevenKey(r) == <<r.location, r.age_group, r.forecast_date,
                             r.target_end_date, r.horizon, r.type, r.quantile>>
            Times(i) == Cardinality({j \in 1..n : SevenKey(rows[j]) = SevenKey(rows[i])})
            more == {i \in 1..n : Times(i) > 1}
            errs == ErrorsOf("check_duplicates")
        IN  /\ Len(errs) <= 1
            /\ errs = <<>> <=> more = {}
            /\ errs # <<>> =>
                  /\ {errs[1][3].rows[k][1] : k \in 1..Len(errs[1][3].rows)} = more
                  /\ errs[1][3].n = Cardinality(more)
                  /\ Len(errs[1][3].rows) = Cardinality(more)
            /\ \A p \in (IF n <= MaxPermuted THEN Permutations(1..n) ELSE Swaps(n)) :
                  FlaggedRows([t EXCEPT !.rows = [i \in 1..n |-> rows[p[i]]]])
                    = {i \in 1..n : p[i] \in flagged}
C7_Witness ==
    /\ pc = "done"
    /\ ErrorsOf("check_duplicates") # <<>>
    /\ ErrorsOf("check_duplicates")[1][3].n = 2
    /\ Len(content.rows) = 2
    /\ content.rows[1].type = "mean"
    /\ content.rows[1].quantile = <<>>

\* C8: check_filepath returns no error exactly for the paths of the
\* submission grammar: forecasts/submissions.../A/B/C/YYYY-MM-DD-A-B-C.csv,
\* with A, B, C the last three directories and the name ending in .csv.
RECURSIVE Segments(_)
Segments(s) ==
    IF SlashPos(s) = {} THEN <<s>>
    ELSE LET p == CHOOSE i \in SlashPos(s) : \A j \in SlashPos(s) : i <= j
         IN  <<SubSeq(s, 1, p - 1)>> \o Segments(SubSeq(s, p + 1, Len(s)))
InGrammar(s) ==
    LET g == Segments(s)
        n == Len(g)
    IN  /\ n >= 6
        /\ g[1] = S_forecasts
        /\ HasAt(g[2], S_submissions, 1)
        /\ g[n - 3] # <<>> /\ g[n - 2] # <<>> /\ g[n - 1] # <<>>
        /\ DateDashAt(g[n], 1)
        /\ SubSeq(g[n], 12, Len(g[n])) =
              g[n - 3] \o <<"-">> \o g[n - 2] \o <<"-">> \o g[n - 1]
              \o <<".", "c", "s", "v">>
C8_GrammarOnly ==
    (pc # "check_filepath" /\ pc # "idle") =>
        (ErrorsOf("check_filepath") = <<>> <=> InGrammar(filepath))

\* C10: when check_forecast returns an empty list, every quantile row has
\* one of the 7 canonical levels, every mean row has no quantile, and,
\* unless the file is all-mean or all-median, the quantile rows of every
\* forecast group carry each of the 7 canonical levels exactly once.
C10_RowModel ==
    (pc = "done" /\ errors = <<>>) =>
        LET rows == Table.rows
            n == Len(rows)
            QRows(i) == {j \in 1..n : /\ rows[j].type = "quantile"
                                      /\ GroupOf(j) = GroupOf(i)}
        IN  /\ \A i \in 1..n :
                  /\ rows[i].type = "quantile" =>
                        /\ rows[i].quantile # <<>>
                        /\ rows[i].quantile[1] \in Range(VALID_QUANTILES)
                  /\ rows[i].type = "mean" => rows[i].quantile = <<>>
            /\ (AllMean \/ AllMedian \/
                \A i \in 1..n : rows[i].type = "quantile" =>
                    \A q \in Range(VALID_QUANTILES) :
                        Cardinality({j \in QRows(i) : rows[j].quantile = <<q>>}) = 1)


\* The batch run of main.py
Ended == mpc \in {"done", "crashed"}
HardFailure == exit_code = "nonzero" /\ "automerge" \notin labels
Submission(f) == pat_match(f.filename)
\* the submissions that are downloaded and that the glob yields
Validated ==
    {f \in files_changed :
        Submission(f) /\ f.status # "removed" /\ GlobCsv(LocalPath(f))}
Outcome(f) == check_forecast(LocalPath(f), f.file, today)
OthersGetOneError ==
    \A f \in files_changed :
        ~Submission(f) =>
            /\ f.filename \in DOMAIN all_errors
            /\ all_errors[f.filename] = NotValidSubmission

\* C9 as stated: the run ends in hard failure (non-zero exit, no automerge
\* label) exactly when some file has a non-empty error list, and every
\* changed file that is no submission has the one error "File is not a
\* valid submission.".
C9_FailsIffSomeErrorList ==
    Ended =>
        /\ HardFailure <=> \E k \in DOMAIN all_errors : Len(all_errors[k]) > 0
        /\ OthersGetOneError

\* What the run does (C9, with the exception taken into account): it ends
\* in hard failure exactly when some file has a
\* non-empty error list or check_forecast raises on a downloaded file (the
\* script then stops at once with an uncaught exception, before line 104
\* gives the other files their error); otherwise it exits with zero and
\* adds automerge.  When no check_forecast raises, every changed file that
\* is no submission has exactly the one error "File is not a valid
\* submission." (its content is not read), so such a changeset fails.
C9_FailsIffErrorOrCrash ==
    Ended =>
        LET raises == \E f \in Validated : Outcome(f).raised
            invalid == \E f \in Validated :
                          ~Outcome(f).raised /\ Outcome(f).out # <<>>
            others == \E f \in files_changed : ~Submission(f)
        IN  /\ HardFailure <=> (raises \/ invalid \/ others)
            /\ ~HardFailure => (exit_code = "zero" /\ "automerge" \in labels)
            /\ mpc = "crashed" <=> raises
            /\ mpc = "done" =>
                  /\ OthersGetOneError
                  /\ \A f \in Validated :
                        Outcome(f).out # <<>> =>
                            /\ basename(LocalPath(f)) \in DOMAIN all_errors
                            /\ Len(all_errors[basename(LocalPath(f))]) > 0
                  /\ (DOMAIN all_errors # {}) <=> (invalid \/ others)
C9_Witness ==
    /\ mpc = "done"
    /\ HardFailure
    /\ Cardinality(files_changed) = 2
    /\ \E f \in files_changed : ~Submission(f)
    /\ \E f \in Validated : Outcome(f) = None

====
